---- MODULE Spec2Model ----
(***************************************************************************)
(* Flight-booking demo: the seat registry (models.Flight / models.Seat),   *)
(* the worker pool with its payment race (service.worker) and the metrics  *)
(* aggregator (service.Metrics).                                           *)
(*                                                                         *)
(* Two kinds of process share the seat registry:                           *)
(*   - Workers: the goroutines started by StartWorkerPool, each running    *)
(*     the loop of service.worker over the requests channel;               *)
(*   - Callers: clients that call HoldSeat / ConfirmSeat / ReleaseSeat     *)
(*     directly, in any order, on any seat number (the public API of       *)
(*     models.Flight).                                                     *)
(* Spec runs the worker pool fed by the producer loop of main; SpecSeat    *)
(* runs the callers alone; SpecMetrics runs Record calls next to           *)
(* AverageLatency calls on the metrics alone.                              *)
(*                                                                         *)
(* Time is abstracted to the order of two events per request: a payment    *)
(* strategy is "fast" when Pay returns before the 8 s timer of the select  *)
(* fires and "slow" when the timer fires first (a slow Pay may return      *)
(* later, or never).                                                       *)
(*                                                                         *)
(* Three smaller programs of the repository stand next to it, each under   *)
(* its own specification and on its own variables:                         *)
(*   - SpecCodec: protocol.Message.Encode and protocol.Decode of the TCP   *)
(*     adapter, applied one after the other to a message;                  *)
(*   - SpecTcp: one connection of the TCP adapter, the loop of             *)
(*     ConnectionHandler.Handle against a client that sends lines;         *)
(*   - SpecMutex: the goroutines of mutex.main2 incrementing the counter   *)
(*     under the mutex.                                                    *)
(*                                                                         *)
(* Text of the TCP adapter is a sequence of units: a unit is a colon, a    *)
(* space, a newline, or a word (a run of characters that holds none of     *)
(* the three). Reading up to a newline, trimming white space and splitting *)
(* at a colon never cut a word, so they act on the units as they act on    *)
(* the characters.                                                         *)
(***************************************************************************)
EXTENDS Integers, Sequences, FiniteSets, TLC

\* ------------------------------------------------------------- bounds
\* Number of concurrent callers of the registry in SpecSeat, number of
\* requests the producer sends, capacity of the requests channel, largest
\* duration (in ticks) a worker measures for a request.
NumCallers == 2
MaxRequests == 2
RequestsCap == 1
MaxDuration == 1

\* Longest Command and longest Payload (in units) of a message given to
\* Encode, number of lines a client sends on its connection, number of
\* goroutines main2 starts (1000 in the source).
MaxLen == 2
MaxLines == 2
NumGoroutines == 3

\* workerCount, the size of the pool: main starts 100 workers; the pool of
\* the model has two.
NumWorkers == 2

\* ------------------------------------------------------ seat registry
Available == "Available"
Held == "Held"
Booked == "Booked"
SeatStatus == {Available, Held, Booked}

\* The keys of Flight.Seat_metrix as CreateFlight fills it, and a seat
\* number that is not a key of the map.
SeatNumbers == {"A1", "A2"}
UnknownSeat == "A0"
SeatArgs == SeatNumbers \cup {UnknownSeat}

Workers == 1..NumWorkers
Callers == (NumWorkers + 1)..(NumWorkers + NumCallers)
Procs == Workers \cup Callers
NoOne == 0

\* Payment strategies, by result and by timing against the deadline.
PayOk == "ok"
PayRefuse == "refuse"
PaySlow == "slow"
Strategies == {PayOk, PayRefuse, PaySlow}

Durations == 0..MaxDuration

\* The producer of Spec sends MaxRequests requests with any strategy; the
\* producer of SpecPaid sends one more, all with the strategy that pays.
ScenarioRequests == MaxRequests + 1
RequestIds == 1..ScenarioRequests
NoReq == [id |-> 0, seatNo |-> UnknownSeat, pay |-> PayOk]
NoStrategy == "-"

VARIABLES
    Seat_metrix,   \* seat number -> Seat.Status
    mu,            \* seat number -> the process holding Seat.mu, or NoOne
    pc,            \* process -> position in its code
    call,          \* process -> the registry operation it is in, and its argument
    seen,          \* process -> the Status it read under the lock
    requests,      \* the buffer of the requests channel
    closed,        \* close(requests) has run
    sent,          \* number of requests the producer has sent
    req,           \* worker -> the request it is processing
    status,        \* worker -> the local variable status
    payment,       \* request id -> position of its payment goroutine
    strategy,      \* request id -> the strategy whose Pay call is running
    paid,          \* request id -> the goroutine's local success, once Pay returned
    timer,         \* request id -> state of the time.After timer of its select
    ret,           \* process -> what its last registry operation returned
    GlobalMetrics, \* the Metrics singleton
    grants,        \* seat number -> HoldSeat calls that returned true in this cycle
    asked,         \* the seat numbers of the requests sent so far
    taken,         \* request id -> number of times it was received from the channel
    recorded,      \* request id -> number of Record calls made for it
    duration,      \* worker -> the duration it passes to Record
    total,         \* AverageLatency: its local total
    average,       \* what the last AverageLatency call returned
    quiet,         \* no Record call has been under way during the AverageLatency call
    ledger,        \* the Record calls made: per status, their durations
    message,       \* codec: the Message given to Encode
    wire,          \* codec: what Encode returned
    decoded,       \* codec: what Decode returned for wire
    conn,          \* tcp: position of Handle on the connection
    inbound,       \* tcp: the lines the client wrote that Handle has not read
    clientOpen,    \* tcp: the client has not closed its end
    outbound,      \* tcp: the lines Handle wrote, in order
    handled,       \* tcp: the lines Handle read, in order
    counter,       \* mutex: the package variable counter
    counterMu,     \* mutex: the goroutine holding the package variable mu
    wg,            \* mutex: the counter of the WaitGroup
    started,       \* mutex: the loop variable i of main2
    gpc,           \* mutex: goroutine -> position in increment
    tmp,           \* mutex: goroutine -> the value of counter it read
    printed        \* mutex: what main2 printed

vars == <<Seat_metrix, mu, pc, call, seen, ret, requests, closed, sent, req,
          status, payment, strategy, paid, timer, GlobalMetrics, grants,
          asked, taken, recorded, duration, total, average, quiet, ledger,
          message, wire, decoded, conn, inbound, clientOpen, outbound,
          handled, counter, counterMu, wg, started, gpc, tmp, printed>>

seatVars == <<Seat_metrix, mu, grants>>
chanVars == <<requests, closed, sent, asked>>
payVars == <<payment, strategy, paid, timer>>
metricsVars == <<duration, total, average, quiet, ledger>>
codecVars == <<message, wire, decoded>>
tcpVars == <<conn, inbound, clientOpen, outbound, handled>>
mutexVars == <<counter, counterMu, wg, started, gpc, tmp, printed>>
demoVars == <<codecVars, tcpVars, mutexVars>>

\* Status strings passed to Record: the three the worker uses and one the
\* switch of Record has no case for.
RecordStatuses == {"success", "failed", "timeout", "cancelled"}

\* average before any AverageLatency call has returned.
NoAverage == 0 - 1

\* A message with nothing in it, the result of a Decode not yet made.
NoMessage == [Command |-> <<>>, Payload |-> <<>>]
NoResult == [err |-> "-", msg |-> NoMessage]

\* The goroutines of main2; nothing printed yet.
Goroutines == 1..NumGoroutines
NoPrint == 0 - 1

NoCall == [op |-> "none", seatNo |-> UnknownSeat]

Init ==
    /\ Seat_metrix = [s \in SeatNumbers |-> Available]
    /\ mu = [s \in SeatNumbers |-> NoOne]
    /\ pc = [p \in Procs |-> "idle"]
    /\ call = [p \in Procs |-> NoCall]
    /\ seen = [p \in Procs |-> Available]
    /\ requests = <<>>
    /\ closed = FALSE
    /\ sent = 0
    /\ req = [w \in Workers |-> NoReq]
    /\ status = [w \in Workers |-> ""]
    /\ payment = [r \in RequestIds |-> "none"]
    /\ paid = [r \in RequestIds |-> FALSE]
    /\ timer = [r \in RequestIds |-> "unset"]
    /\ strategy = [r \in RequestIds |-> NoStrategy]
    /\ ret = [p \in Procs |-> FALSE]
    /\ GlobalMetrics = [TotalRequests |-> 0, Success |-> 0, Failed |-> 0,
                        Timeout |-> 0, TotalLatency |-> 0]
    /\ grants = [s \in SeatNumbers |-> 0]
    /\ asked = {}
    /\ taken = [r \in RequestIds |-> 0]
    /\ recorded = [r \in RequestIds |-> 0]
    /\ duration = [w \in Workers |-> 0]
    /\ total = 0
    /\ average = NoAverage
    /\ quiet = FALSE
    /\ ledger = [calls |-> [st \in RecordStatuses |-> 0], latency |-> 0,
                 begun |-> {}, done |-> {}]
    /\ message = NoMessage
    /\ wire = <<>>
    /\ decoded = NoResult
    /\ conn = "accepted"
    /\ inbound = <<>>
    /\ clientOpen = TRUE
    /\ outbound = <<>>
    /\ handled = <<>>
    /\ counter = 0
    /\ counterMu = NoOne
    /\ wg = 0
    /\ started = 0
    /\ gpc = [g \in Goroutines |-> "unborn"]
    /\ tmp = [g \in Goroutines |-> 0]
    /\ printed = NoPrint

\* ------------------------------------------------- registry operations
\* Seat.mu can be acquired.
SeatLockIgnored(s) == TRUE
FlightLockFree(s) == \A t \in SeatNumbers : mu[t] = NoOne
SeatLockFree(s) == mu[s] = NoOne

\* The three status tests of the registry.
HoldUnlessBooked(st) == st # Booked
ConfirmUnlessBooked(st) == st # Booked
ReleaseWhenBooked(st) == st = Booked
HoldAllowed(st) == st = Available
ConfirmWhenAvailable(st) == st = Available
ConfirmAllowed(st) == st = Held
ReleaseUnlessAvailable(st) == st # Available
ReleaseAllowed(st) == st = Held

\* What an operation makes of the status it read, and what it returns.
NewStatusHoldUnchecked(op, st) ==
    CASE op = "hold" -> Held
      [] op = "confirm" -> IF st = Held THEN Booked ELSE st
      [] op = "release" -> IF st = Held THEN Available ELSE st

NewStatus(op, st) ==
    CASE op = "hold" -> IF HoldAllowed(st) THEN Held ELSE st
      [] op = "confirm" -> IF ConfirmAllowed(st) THEN Booked ELSE st
      [] op = "release" -> IF ReleaseAllowed(st) THEN Available ELSE st

ResultAlwaysTrue(op, st) == TRUE

Result(op, st) ==
    CASE op = "hold" -> HoldAllowed(st)
      [] op = "confirm" -> ConfirmAllowed(st)
      [] op = "release" -> FALSE

\* Where a process goes when its registry operation returns r. A caller is
\* back where it can call again. A worker goes on in service.worker: after a
\* refused hold it records "failed"; after a granted hold it starts the
\* payment goroutine and waits in the select; after ConfirmSeat or
\* ReleaseSeat (whose result it ignores) it records the outcome.
Return(p, r) ==
    /\ ret' = [ret EXCEPT ![p] = r]
    /\ call' = [call EXCEPT ![p] = NoCall]
    /\ IF p \in Callers
       THEN /\ pc' = [pc EXCEPT ![p] = "idle"]
            /\ UNCHANGED <<status, payment, strategy, timer>>
       ELSE IF call[p].op = "hold"
            THEN IF r
                 THEN /\ pc' = [pc EXCEPT ![p] = "select"]
                      /\ payment' = [payment EXCEPT ![req[p].id] = "paying"]
                      /\ strategy' = [strategy EXCEPT ![req[p].id] = req[p].pay]
                      /\ timer' = [timer EXCEPT ![req[p].id] = "armed"]
                      /\ UNCHANGED status
                 ELSE /\ pc' = [pc EXCEPT ![p] = "rec1"]
                      /\ status' = [status EXCEPT ![p] = "failed"]
                      /\ UNCHANGED <<payment, strategy, timer>>
            ELSE /\ pc' = [pc EXCEPT ![p] = "rec1"]
                 /\ UNCHANGED <<status, payment, strategy, timer>>

\* seat, exists := f.Seat_metrix[seatNo]; if !exists { return false };
\* seat.mu.Lock(); and the read of seat.Status in the if that follows.
\* What reading the seat map at key s leaves the map: a Go map read of a
\* missing key inserts nothing.
LookupInserts(m, s) ==
    [t \in DOMAIN m \cup {s} |-> IF t \in DOMAIN m THEN m[t] ELSE Available]
Lookup(m, s) == m

SeatLock(p) ==
    /\ pc[p] = "lock"
    /\ Seat_metrix' = Lookup(Seat_metrix, call[p].seatNo)
    /\ IF call[p].seatNo \notin DOMAIN Seat_metrix
       THEN /\ Return(p, FALSE)
            /\ UNCHANGED <<mu, seen>>
       ELSE /\ SeatLockFree(call[p].seatNo)
            /\ mu' = [mu EXCEPT ![call[p].seatNo] = p]
            /\ seen' = [seen EXCEPT ![p] = Seat_metrix[call[p].seatNo]]
            /\ pc' = [pc EXCEPT ![p] = "write"]
            /\ UNCHANGED <<call, ret, status, payment, strategy, timer>>
    /\ UNCHANGED <<grants, paid, req, chanVars, GlobalMetrics, taken,
                   recorded>>
    /\ UNCHANGED <<metricsVars, demoVars>>

\* the write of seat.Status (or the return without one), and the deferred
\* seat.mu.Unlock()
UnlockSkipped(m, s) == m
Unlock(m, s) == [m EXCEPT ![s] = NoOne]

SeatWrite(p) ==
    /\ pc[p] = "write"
    /\ LET s == call[p].seatNo
           op == call[p].op
           new == NewStatus(op, seen[p])
       IN /\ Seat_metrix' = [Seat_metrix EXCEPT ![s] = new]
          /\ grants' = [grants EXCEPT ![s] =
                 IF op = "hold" /\ Result(op, seen[p])
                 THEN (IF @ < 2 THEN @ + 1 ELSE @)
                 ELSE IF new = Available THEN 0 ELSE @]
          /\ mu' = Unlock(mu, s)
          /\ seen' = [seen EXCEPT ![p] = Available]
          /\ Return(p, Result(op, seen[p]))
    /\ UNCHANGED <<paid, req, chanVars, GlobalMetrics, taken, recorded>>
    /\ UNCHANGED <<metricsVars, demoVars>>

\* ------------------------------------------------------------ callers
\* A client calls one of the three operations on any seat number.
Call(p) ==
    /\ pc[p] = "idle"
    /\ \E op \in {"hold", "confirm", "release"}, s \in SeatArgs :
           call' = [call EXCEPT ![p] = [op |-> op, seatNo |-> s]]
    /\ pc' = [pc EXCEPT ![p] = "lock"]
    /\ UNCHANGED <<seatVars, seen, ret, req, status, payVars, chanVars,
                   GlobalMetrics, taken, recorded>>
    /\ UNCHANGED <<metricsVars, demoVars>>

NextSeat ==
    \E p \in Callers : Call(p) \/ SeatLock(p) \/ SeatWrite(p)

SpecSeat == Init /\ [][NextSeat]_vars

\* ----------------------------------------------------------- producer
\* main: requests <- service.BookingRequest{...}; the send blocks while the
\* buffer of the channel is full. The seat number and the payment strategy
\* of a request are the producer's choice (among kinds); it sends n requests.
SendReadyAlways(q) == TRUE
SendReady(q) == Len(q) < RequestsCap

Send(n, kinds) ==
    /\ sent < n
    /\ ~closed
    /\ SendReady(requests)
    /\ \E s \in SeatArgs, k \in kinds :
           /\ requests' = Append(requests, [id |-> sent + 1, seatNo |-> s, pay |-> k])
           /\ asked' = asked \cup {s}
    /\ sent' = sent + 1
    /\ UNCHANGED <<seatVars, pc, call, seen, ret, closed, req, status, payVars,
                   GlobalMetrics, taken, recorded>>
    /\ UNCHANGED <<metricsVars, demoVars>>

\* main: close(requests), after the sending loop
CloseAfter(n) ==
    /\ sent = n
    /\ ~closed
    /\ closed' = TRUE
    /\ UNCHANGED <<seatVars, pc, call, seen, ret, requests, sent, asked, req,
                   status, payVars, GlobalMetrics, taken, recorded>>
    /\ UNCHANGED <<metricsVars, demoVars>>

Produce == Send(MaxRequests, Strategies)
Close == CloseAfter(MaxRequests)

\* ------------------------------------------------------------- worker
\* What a receive leaves in the buffer of the channel.
RestKeepsHead(q) == q
Rest(q) == Tail(q)

\* for req := range requests: the next request; status := ""; HoldSeat(seatNo)
Dequeue(w) ==
    /\ pc[w] = "idle"
    /\ requests # <<>>
    /\ req' = [req EXCEPT ![w] = Head(requests)]
    /\ requests' = Rest(requests)
    /\ status' = [status EXCEPT ![w] = ""]
    /\ call' = [call EXCEPT ![w] = [op |-> "hold", seatNo |-> Head(requests).seatNo]]
    /\ taken' = [taken EXCEPT ![Head(requests).id] = @ + 1]
    /\ pc' = [pc EXCEPT ![w] = "lock"]
    /\ UNCHANGED <<seatVars, seen, ret, closed, sent, asked, payVars,
                   GlobalMetrics, recorded>>
    /\ UNCHANGED <<metricsVars, demoVars>>

\* for req := range requests ends when the channel is closed and drained.
RangeEndsOnClose(q, c) == c
RangeEnds(q, c) == q = <<>> /\ c

\* for req := range requests ends on a closed and drained channel; wg.Done()
Exit(w) ==
    /\ pc[w] = "idle"
    /\ RangeEnds(requests, closed)
    /\ pc' = [pc EXCEPT ![w] = "done"]
    /\ UNCHANGED <<seatVars, call, seen, ret, chanVars, req, status, payVars,
                   GlobalMetrics, taken, recorded>>
    /\ UNCHANGED <<metricsVars, demoVars>>

\* The payment goroutine: success := req.Payment.Pay(price) returns. A fast
\* strategy returns before the timer of the select fires, a slow one only
\* after it has fired (with either result).
PayReturn(r) ==
    /\ payment[r] = "paying"
    /\ IF strategy[r] = PaySlow
       THEN /\ timer[r] = "fired"
            /\ \E b \in BOOLEAN : paid' = [paid EXCEPT ![r] = b]
       ELSE paid' = [paid EXCEPT ![r] = (strategy[r] = PayOk)]
    /\ strategy' = [strategy EXCEPT ![r] = NoStrategy]
    /\ payment' = [payment EXCEPT ![r] = "sending"]
    /\ UNCHANGED <<seatVars, pc, call, seen, ret, chanVars, req, status, timer,
                   GlobalMetrics, taken, recorded>>
    /\ UNCHANGED <<metricsVars, demoVars>>

\* paymentDone is made by make(chan bool): it has no buffer, so the send
\* paymentDone <- success completes only together with a receive.
\* Worker w is the receiver: paymentDone is made anew for each request, and
\* only the worker of that request, while in its select, receives from it.
ReceivesAny(w, r) == pc[w] = "select"
Receives(w, r) == pc[w] = "select" /\ req[w].id = r

PaymentDoneCanSend(r) == \E w \in Workers : Receives(w, r)

\* if success { status = "success"; ConfirmSeat } else { status = "failed";
\* ReleaseSeat }
PaidStatusUnset(success) == IF success THEN "success" ELSE ""
PaidStatus(success) == IF success THEN "success" ELSE "failed"

PaidCallAlwaysConfirm(success) == "confirm"
PaidCall(success) == IF success THEN "confirm" ELSE "release"

\* select, case success := <-paymentDone, together with the goroutine's send
PaymentDone(w) ==
    /\ pc[w] = "select"
    /\ \E r \in RequestIds :
           /\ payment[r] = "sending"
           /\ Receives(w, r)
           /\ payment' = [payment EXCEPT ![r] = "done"]
           /\ paid' = [paid EXCEPT ![r] = FALSE]
           /\ status' = [status EXCEPT ![w] = PaidStatus(paid[r])]
           /\ call' = [call EXCEPT ![w] =
                  [op |-> PaidCall(paid[r]), seatNo |-> req[w].seatNo]]
    /\ pc' = [pc EXCEPT ![w] = "lock"]
    /\ UNCHANGED <<seatVars, seen, ret, chanVars, req, strategy, timer,
                   GlobalMetrics, taken, recorded>>
    /\ UNCHANGED <<metricsVars, demoVars>>

\* The timer of time.After(8 * time.Second) fires while the worker waits in
\* the select: the Pay call of the request is slower than the deadline.
TimerNeverFires(r) == FALSE
TimerFires(r) == strategy[r] = PaySlow /\ timer[r] = "armed"

\* status = "timeout"
TimeoutStatusFailed == "failed"
TimeoutStatus == "timeout"

\* select, case <-time.After(8 * time.Second): ReleaseSeat; status = "timeout"
Timeout(w) ==
    /\ pc[w] = "select"
    /\ TimerFires(req[w].id)
    /\ timer' = [timer EXCEPT ![req[w].id] = "fired"]
    /\ status' = [status EXCEPT ![w] = TimeoutStatus]
    /\ call' = [call EXCEPT ![w] = [op |-> "release", seatNo |-> req[w].seatNo]]
    /\ pc' = [pc EXCEPT ![w] = "lock"]
    /\ UNCHANGED <<seatVars, seen, ret, chanVars, req, payment, strategy, paid,
                   GlobalMetrics, taken, recorded>>
    /\ UNCHANGED <<metricsVars, demoVars>>

\* ------------------------------------------------------------ metrics
\* switch status: the counter Record adds 1 to
CounterWithoutTimeout(st) ==
    CASE st = "success" -> "Success"
      [] st = "failed" -> "Failed"
      [] OTHER -> "none"

Counter(st) ==
    CASE st = "success" -> "Success"
      [] st = "failed" -> "Failed"
      [] st = "timeout" -> "Timeout"
      [] OTHER -> "none"

\* The three atomic adds of Record, as functions of the Metrics value.
AddTotalWrapping(m) == [m EXCEPT !.TotalRequests = (@ + 1) % 2]
AddTotal(m) == [m EXCEPT !.TotalRequests = @ + 1]

AddLatencyDropped(m, d) == m
AddLatency(m, d) == [m EXCEPT !.TotalLatency = @ + d]

AddOutcomeAlwaysFailed(m, st) == [m EXCEPT !.Failed = @ + 1]
AddOutcome(m, st) ==
    IF Counter(st) = "none" THEN m ELSE [m EXCEPT ![Counter(st)] = @ + 1]

\* Record: atomic.AddInt64(&m.TotalRequests, 1)
RecordTotal(w) ==
    /\ pc[w] = "rec1"
    /\ GlobalMetrics' = AddTotal(GlobalMetrics)
    /\ pc' = [pc EXCEPT ![w] = "rec2"]
    /\ UNCHANGED <<seatVars, call, seen, ret, chanVars, req, status, payVars,
                   taken, recorded>>
    /\ UNCHANGED <<metricsVars, demoVars>>

\* Record: atomic.AddInt64(&m.TotalLatency, duration.Nanoseconds())
RecordLatency(w) ==
    /\ pc[w] = "rec2"
    /\ \E d \in Durations : GlobalMetrics' = AddLatency(GlobalMetrics, d)
    /\ pc' = [pc EXCEPT ![w] = "rec3"]
    /\ UNCHANGED <<seatVars, call, seen, ret, chanVars, req, status, payVars,
                   taken, recorded>>
    /\ UNCHANGED <<metricsVars, demoVars>>

\* Where the worker is after Record: at the head of its range loop.
LoopEndsAfterFailure(st) == IF st = "success" THEN "idle" ELSE "done"
LoopContinues(st) == "idle"

\* Record: the switch on status, and the end of the loop body
RecordOutcome(w) ==
    /\ pc[w] = "rec3"
    /\ GlobalMetrics' = AddOutcome(GlobalMetrics, status[w])
    /\ recorded' = [recorded EXCEPT ![req[w].id] = @ + 1]
    /\ req' = [req EXCEPT ![w] = NoReq]
    /\ status' = [status EXCEPT ![w] = ""]
    /\ pc' = [pc EXCEPT ![w] = LoopContinues(status[w])]
    /\ UNCHANGED <<seatVars, call, seen, ret, chanVars, payVars, taken>>
    /\ UNCHANGED <<metricsVars, demoVars>>

worker(w) ==
    \/ Dequeue(w)
    \/ SeatLock(w)
    \/ SeatWrite(w)
    \/ PaymentDone(w)
    \/ Timeout(w)
    \/ RecordTotal(w)
    \/ RecordLatency(w)
    \/ RecordOutcome(w)
    \/ Exit(w)

Next ==
    \/ Produce
    \/ Close
    \/ \E w \in Workers : worker(w)
    \/ \E r \in RequestIds : PayReturn(r)

Spec == Init /\ [][Next]_vars

\* The scheduling the Go runtime gives: the producer and every worker keep
\* running, and a Pay call that is faster than the deadline returns. A slow
\* Pay call need not return at all.
PayReturnInTime(r) == strategy[r] # PaySlow /\ PayReturn(r)

FairSpec ==
    /\ Spec
    /\ WF_vars(Produce)
    /\ WF_vars(Close)
    /\ \A w \in Workers : WF_vars(worker(w))
    /\ \A r \in RequestIds : WF_vars(PayReturnInTime(r))

\* Scenario E: every request carries a strategy that pays before the
\* deadline, so the timer of the select never fires first.
ProducePaid == Send(ScenarioRequests, {PayOk})
ClosePaid == CloseAfter(ScenarioRequests)

workerPaid(w) ==
    \/ Dequeue(w)
    \/ SeatLock(w)
    \/ SeatWrite(w)
    \/ PaymentDone(w)
    \/ RecordTotal(w)
    \/ RecordLatency(w)
    \/ RecordOutcome(w)
    \/ Exit(w)

NextPaid ==
    \/ ProducePaid
    \/ ClosePaid
    \/ \E w \in Workers : workerPaid(w)
    \/ \E r \in RequestIds : PayReturn(r)

SpecPaid == Init /\ [][NextPaid]_vars

\* ------------------------------------------------------------- claims
\* Every request carries a strategy whose Pay call outlasts the deadline,
\* so no payment result is ever received.
\* One request more than the pool has workers.
SlowRequests == NumWorkers + 1
ProduceSlow == Send(SlowRequests, {PaySlow})
CloseSlow == CloseAfter(SlowRequests)

workerSlow(w) ==
    \/ Dequeue(w)
    \/ SeatLock(w)
    \/ SeatWrite(w)
    \/ Timeout(w)
    \/ RecordTotal(w)
    \/ RecordLatency(w)
    \/ RecordOutcome(w)
    \/ Exit(w)

NextSlow ==
    \/ ProduceSlow
    \/ CloseSlow
    \/ \E w \in Workers : workerSlow(w)
    \/ \E r \in RequestIds : PayReturn(r)

SpecSlow == Init /\ [][NextSlow]_vars

\* ------------------------------------------------ metrics in isolation
\* Record is called by the workers and AverageLatency by the handler of the
\* metrics server. SpecMetrics runs the workers reduced to their Record
\* calls, with any duration and any status string, next to one handler.
Reader == NumWorkers + 1

registryVars == <<seatVars, call, seen, ret>>
poolVars == <<chanVars, req, payVars, taken, recorded>>

\* GlobalMetrics.Record(duration, status) is called.
RecordCall(w) ==
    /\ pc[w] = "idle"
    /\ GlobalMetrics.TotalRequests
           + Cardinality({v \in Workers : pc[v] = "rec1"}) < MaxRequests
    /\ \E d \in Durations, st \in RecordStatuses :
           /\ duration' = [duration EXCEPT ![w] = d]
           /\ status' = [status EXCEPT ![w] = st]
           /\ ledger' = [ledger EXCEPT !.begun = @ \cup {d}]
    /\ pc' = [pc EXCEPT ![w] = "rec1"]
    /\ UNCHANGED <<demoVars, registryVars, poolVars, GlobalMetrics, total, average,
                   quiet>>

\* Record: atomic.AddInt64(&m.TotalRequests, 1)
RecordAddTotal(w) ==
    /\ pc[w] = "rec1"
    /\ GlobalMetrics' = AddTotal(GlobalMetrics)
    /\ quiet' = FALSE
    /\ pc' = [pc EXCEPT ![w] = "rec2"]
    /\ UNCHANGED <<demoVars, registryVars, poolVars, status, duration, total, average,
                   ledger>>

\* Record: atomic.AddInt64(&m.TotalLatency, duration.Nanoseconds())
RecordAddLatency(w) ==
    /\ pc[w] = "rec2"
    /\ GlobalMetrics' = AddLatency(GlobalMetrics, duration[w])
    /\ quiet' = FALSE
    /\ pc' = [pc EXCEPT ![w] = "rec3"]
    /\ UNCHANGED <<demoVars, registryVars, poolVars, status, duration, total, average,
                   ledger>>

\* Record: the switch on status, and the return
RecordSwitch(w) ==
    /\ pc[w] = "rec3"
    /\ GlobalMetrics' = AddOutcome(GlobalMetrics, status[w])
    /\ ledger' = [ledger EXCEPT !.calls[status[w]] = @ + 1,
                                !.latency = @ + duration[w],
                                !.done = @ \cup {duration[w]}]
    /\ quiet' = FALSE
    /\ duration' = [duration EXCEPT ![w] = 0]
    /\ status' = [status EXCEPT ![w] = ""]
    /\ pc' = [pc EXCEPT ![w] = "idle"]
    /\ UNCHANGED <<demoVars, registryVars, poolVars, total, average>>

\* AverageLatency: if total == 0
TotalIsZeroNever(n) == FALSE
TotalIsZero(n) == n = 0

\* AverageLatency: total := atomic.LoadInt64(&m.TotalRequests);
\* if total == 0 { return 0 }
LoadTotal ==
    /\ pc[Reader] = "idle"
    /\ total' = GlobalMetrics.TotalRequests
    /\ quiet' = \A w \in Workers : pc[w] \notin {"rec2", "rec3"}
    /\ IF TotalIsZero(GlobalMetrics.TotalRequests)
       THEN average' = 0 /\ UNCHANGED pc
       ELSE average' = NoAverage /\ pc' = [pc EXCEPT ![Reader] = "avg2"]
    /\ UNCHANGED <<demoVars, registryVars, poolVars, GlobalMetrics, status, duration,
                   ledger>>

\* AverageLatency: lat := atomic.LoadInt64(&m.TotalLatency);
\* return time.Duration(lat / total). An integer division by zero panics.
LoadLatency ==
    /\ pc[Reader] = "avg2"
    /\ IF total = 0
       THEN /\ pc' = [pc EXCEPT ![Reader] = "panic"]
            /\ UNCHANGED average
       ELSE /\ average' = GlobalMetrics.TotalLatency \div total
            /\ pc' = [pc EXCEPT ![Reader] = "idle"]
    /\ total' = 0
    /\ UNCHANGED <<demoVars, registryVars, poolVars, GlobalMetrics, status, duration,
                   quiet, ledger>>

NextMetrics ==
    \/ \E w \in Workers :
           \/ RecordCall(w)
           \/ RecordAddTotal(w)
           \/ RecordAddLatency(w)
           \/ RecordSwitch(w)
    \/ LoadTotal
    \/ LoadLatency

SpecMetrics == Init /\ [][NextMetrics]_vars

\* ------------------------------------------------ claims on the registry
SeatOf(p) == call[p].seatNo

\* C1. Mutual exclusion of holds: in every cycle of a seat (from Available
\* until it is Available again) exactly one HoldSeat call returns true,
\* however many run concurrently: no call has returned true while the seat is
\* Available, and exactly one has while it is Held or Booked.
C1_MutualExclusion ==
    \A s \in SeatNumbers :
        grants[s] = IF Seat_metrix[s] = Available THEN 0 ELSE 1

\* Two HoldSeat calls on the same seat overlap; one has the lock and has read
\* Available, the other waits for the lock.
C1_Witness ==
    \E p, q \in Callers :
        /\ p # q
        /\ call[p].op = "hold" /\ call[q].op = "hold"
        /\ SeatOf(p) = SeatOf(q) /\ SeatOf(p) \in SeatNumbers
        /\ pc[p] = "write" /\ seen[p] = Available
        /\ pc[q] = "lock"
        /\ Seat_metrix[SeatOf(p)] = Available

\* C2. Seat state-machine legality: every change of a seat's status is one
\* of Available -> Held, Held -> Booked, Held -> Available.
LegalTransitions ==
    {<<Available, Held>>, <<Held, Booked>>, <<Held, Available>>}

C2_StateMachineLegal ==
    [][\A s \in SeatNumbers :
           Seat_metrix'[s] # Seat_metrix[s] =>
               <<Seat_metrix[s], Seat_metrix'[s]>> \in LegalTransitions]_vars

\* ReleaseSeat and ConfirmSeat run concurrently on a Booked seat.
C2_Witness ==
    \E p, q \in Callers :
        /\ p # q
        /\ call[p].op = "release" /\ call[q].op = "confirm"
        /\ SeatOf(p) = SeatOf(q) /\ SeatOf(p) \in SeatNumbers
        /\ Seat_metrix[SeatOf(p)] = Booked
        /\ pc[p] = "write" /\ pc[q] = "lock"

\* ------------------------------------------------ claims on the pool
Rid(w) == req[w].id
InRequest(w) == req[w].id # 0
InRegistry(w) == pc[w] \in {"lock", "write"}
Recording(w) == pc[w] \in {"rec1", "rec2", "rec3"}
OutcomeCounters == {"Success", "Failed", "Timeout"}

\* The queue is closed and drained and every worker has left its loop.
Quiescent ==
    /\ closed
    /\ requests = <<>>
    /\ \A w \in Workers : pc[w] = "done"

\* The step is worker w's Record reaching the switch: it adds 1 to counter c
\* and to no other outcome counter, and it is the one Record of the request.
RecordsExactly(w, c) ==
    /\ GlobalMetrics'[c] = GlobalMetrics[c] + 1
    /\ \A d \in OutcomeCounters \ {c} : GlobalMetrics'[d] = GlobalMetrics[d]
    /\ recorded[Rid(w)] = 0
    /\ recorded'[Rid(w)] = 1

LastRecordStep(w) == pc[w] = "rec3" /\ pc'[w] = "idle"

\* C3. Metrics conservation: at quiescence (queue closed and drained, every
\* worker out of its loop) success + failed + timeout = totalRequests.
C3_MetricsConservation ==
    Quiescent =>
        GlobalMetrics.Success + GlobalMetrics.Failed + GlobalMetrics.Timeout
            = GlobalMetrics.TotalRequests

\* Quiescence after one request ended as success and one as timeout.
C3_Witness ==
    /\ Quiescent
    /\ GlobalMetrics.TotalRequests = MaxRequests
    /\ GlobalMetrics.Success >= 1
    /\ GlobalMetrics.Timeout >= 1

\* C4. The payment goroutine never blocks on delivering its result: whenever
\* it has returned from Pay and is at paymentDone <- success, the send can
\* complete, also after the deadline won the race.
C4_PaymentNeverBlocks ==
    \A r \in RequestIds : payment[r] = "sending" => PaymentDoneCanSend(r)

\* C5. Timeout path: a worker whose select took the deadline case calls
\* ReleaseSeat with status "timeout", that release leaves the seat Available
\* (so that HoldSeat can succeed on it again), and the request is recorded as
\* timeout exactly once.
C5_TimeoutInv ==
    /\ \A w \in Workers :
           (InRequest(w) /\ timer[Rid(w)] = "fired") =>
               /\ status[w] = "timeout"
               /\ pc[w] # "select"
               /\ recorded[Rid(w)] = 0
               /\ InRegistry(w) =>
                      (call[w].op = "release" /\ Seat_metrix[req[w].seatNo] = Held)
    /\ \A w \in Workers : status[w] = "timeout" => timer[Rid(w)] = "fired"
    /\ \A r \in RequestIds : recorded[r] <= 1
    /\ GlobalMetrics.Timeout =
           Cardinality({r \in RequestIds : timer[r] = "fired" /\ recorded[r] = 1})

C5_TimeoutStep ==
    \A w \in Workers :
        /\ (pc[w] = "select" /\ TimerFires(Rid(w)) /\ timer'[Rid(w)] = "fired") =>
               (call'[w].op = "release" /\ status'[w] = "timeout")
        /\ (status[w] = "timeout" /\ pc[w] = "write" /\ pc'[w] = "rec1") =>
               /\ Seat_metrix'[req[w].seatNo] = Available
               /\ HoldAllowed(Seat_metrix'[req[w].seatNo])
        /\ (status[w] = "timeout" /\ LastRecordStep(w)) => RecordsExactly(w, "Timeout")

C5_TimeoutPath == []C5_TimeoutInv /\ [][C5_TimeoutStep]_vars

\* Request 1 timed out on A1 and was recorded; request 2 holds A1 again.
C5_Witness ==
    /\ asked = {"A1"}
    /\ timer[1] = "fired" /\ recorded[1] = 1
    /\ GlobalMetrics.Timeout = 1
    /\ payment[2] # "none"
    /\ Seat_metrix["A1"] = Held

\* C6. Success path: when the payment of a held seat returns true before the
\* deadline the worker takes the payment case with status "success", calls
\* ConfirmSeat on the seat it holds, the seat is Booked from then on, and the
\* request is recorded as success exactly once.
C6_SuccessInv ==
    \A w \in Workers :
        /\ (InRequest(w) /\ req[w].pay = PayOk /\ payment[Rid(w)] = "done") =>
               /\ status[w] = "success"
               /\ recorded[Rid(w)] = 0
               /\ InRegistry(w) =>
                      (call[w].op = "confirm" /\ Seat_metrix[req[w].seatNo] = Held)
               /\ Recording(w) => Seat_metrix[req[w].seatNo] = Booked
        /\ status[w] = "success" => (req[w].pay = PayOk /\ payment[Rid(w)] = "done")

C6_SuccessStep ==
    /\ \A w \in Workers :
        /\ (pc[w] = "select" /\ req[w].pay = PayOk /\ pc'[w] # "select") =>
               (status'[w] = "success" /\ call'[w].op = "confirm")
        /\ (status[w] = "success" /\ LastRecordStep(w)) => RecordsExactly(w, "Success")
    /\ GlobalMetrics'.Success # GlobalMetrics.Success =>
           \E w \in Workers : status[w] = "success" /\ LastRecordStep(w)

C6_SuccessPath == []C6_SuccessInv /\ [][C6_SuccessStep]_vars

\* The first request was paid: its seat is Booked and one success is recorded.
C6_Witness ==
    /\ GlobalMetrics.Success = 1
    /\ GlobalMetrics.TotalRequests = 1
    /\ recorded[1] = 1 /\ payment[1] = "done"
    /\ \E s \in SeatNumbers : Seat_metrix[s] = Booked

\* C7. Payment-refused path: when the payment of a held seat returns false
\* before the deadline the worker takes the payment case with status
\* "failed", calls ReleaseSeat on the seat it holds, that release leaves the
\* seat Available, and the request is recorded as failed exactly once.
C7_RefusedInv ==
    \A w \in Workers :
        (InRequest(w) /\ req[w].pay = PayRefuse /\ payment[Rid(w)] = "done") =>
            /\ status[w] = "failed"
            /\ recorded[Rid(w)] = 0
            /\ InRegistry(w) =>
                   (call[w].op = "release" /\ Seat_metrix[req[w].seatNo] = Held)

C7_RefusedStep ==
    \A w \in Workers :
        /\ (pc[w] = "select" /\ req[w].pay = PayRefuse /\ pc'[w] # "select") =>
               (status'[w] = "failed" /\ call'[w].op = "release")
        /\ (req[w].pay = PayRefuse /\ payment[Rid(w)] = "done"
              /\ pc[w] = "write" /\ pc'[w] = "rec1") =>
               Seat_metrix'[req[w].seatNo] = Available
        /\ (InRequest(w) /\ req[w].pay = PayRefuse /\ payment[Rid(w)] = "done"
              /\ LastRecordStep(w)) => RecordsExactly(w, "Failed")

C7_RefusedPath == []C7_RefusedInv /\ [][C7_RefusedStep]_vars

\* The first request held a seat, was refused by its payment and is recorded.
C7_Witness ==
    /\ GlobalMetrics.Failed = 1
    /\ GlobalMetrics.TotalRequests = 1
    /\ recorded[1] = 1 /\ payment[1] = "done"
    /\ \A s \in SeatNumbers : Seat_metrix[s] = Available

\* C8. Failed hold leaves everything untouched: when HoldSeat returns false
\* the worker goes straight to Record with status "failed"; no payment
\* goroutine and no timer is started, no step of the worker for that request
\* changes a seat or calls ConfirmSeat or ReleaseSeat, and the request is
\* recorded as failed exactly once.
HoldRefused(w) == InRequest(w) /\ Recording(w) /\ payment[Rid(w)] = "none"

C8_FailedHoldInv ==
    \A w \in Workers :
        HoldRefused(w) =>
            /\ status[w] = "failed"
            /\ timer[Rid(w)] = "unset"
            /\ strategy[Rid(w)] = NoStrategy
            /\ recorded[Rid(w)] = 0

C8_FailedHoldStep ==
    \A w \in Workers :
        /\ (call[w].op = "hold" /\ pc'[w] = "rec1") =>
               /\ Seat_metrix' = Seat_metrix
               /\ payment' = payment
               /\ status'[w] = "failed"
        /\ (HoldRefused(w) /\ pc'[w] # pc[w]) =>
               /\ Seat_metrix' = Seat_metrix
               /\ payment' = payment
               /\ pc'[w] \in {"rec2", "rec3", "idle"}
        /\ (HoldRefused(w) /\ LastRecordStep(w)) => RecordsExactly(w, "Failed")

C8_FailedHold == []C8_FailedHoldInv /\ [][C8_FailedHoldStep]_vars

\* A worker is recording a refused hold on a seat that a competing request
\* holds.
C8_Witness ==
    \E w \in Workers :
        /\ HoldRefused(w)
        /\ req[w].seatNo \in SeatNumbers
        /\ Seat_metrix[req[w].seatNo] = Held

\* C9. Scenario E generalised: when R requests are sent for S seats of the
\* flight, all with a strategy that pays before the deadline, then at
\* quiescence exactly the S requested seats are Booked, success = S,
\* failed = R - S, timeout = 0 and totalRequests = R.
BookedSeats == {s \in SeatNumbers : Seat_metrix[s] = Booked}

C9_ScenarioE ==
    Quiescent =>
        /\ BookedSeats = asked \cap SeatNumbers
        /\ GlobalMetrics.Success = Cardinality(asked \cap SeatNumbers)
        /\ GlobalMetrics.Failed = sent - Cardinality(asked \cap SeatNumbers)
        /\ GlobalMetrics.Timeout = 0
        /\ GlobalMetrics.TotalRequests = sent

\* Quiescence after more requests than seats, every seat of the flight
\* requested at least once and no unknown seat.
C9_Witness ==
    /\ Quiescent
    /\ asked = SeatNumbers
    /\ sent = ScenarioRequests
    /\ sent > Cardinality(SeatNumbers)
    /\ GlobalMetrics.Failed = sent - Cardinality(SeatNumbers)

\* C10. Every request is resolved even when payment is slow: a request whose
\* Pay call is slower than the deadline (or never returns) is recorded once
\* the timer has fired and its worker is back at the queue, and no worker is
\* in the select of a request whose timer has fired.
C10_SlowPaymentResolved ==
    /\ \A r \in RequestIds :
           (payment[r] = "paying" /\ strategy[r] = PaySlow)
               ~> (timer[r] = "fired" /\ recorded[r] = 1)
    /\ \A w \in Workers :
           (pc[w] = "select" /\ req[w].pay = PaySlow)
               ~> (pc[w] \in {"idle", "done"})
    /\ [](\A w \in Workers : pc[w] = "select" => timer[Rid(w)] = "armed")

\* All workers have left while the Pay call of a timed-out request has not
\* returned.
C10_Witness ==
    /\ Quiescent
    /\ \E r \in RequestIds :
           payment[r] = "paying" /\ timer[r] = "fired" /\ recorded[r] = 1

\* C11. Each request is dequeued exactly once: a request placed on the queue
\* is either still in the queue or was received by exactly one worker, exactly
\* once; no two workers process the same request, a received request is with
\* one worker or recorded, and at quiescence none has been lost.
InQueue(r) == Cardinality({i \in 1..Len(requests) : requests[i].id = r})
WorkersOn(r) == {w \in Workers : Rid(w) = r}

C11_DequeuedExactlyOnce ==
    /\ \A r \in RequestIds :
           /\ taken[r] + InQueue(r) = IF r <= sent THEN 1 ELSE 0
           /\ Cardinality(WorkersOn(r)) + recorded[r] = taken[r]
    /\ Quiescent => \A r \in 1..sent : taken[r] = 1 /\ recorded[r] = 1

\* Every worker of the pool is processing a request of its own while a
\* further request has been sent.
C11_Witness ==
    /\ \A w \in Workers : InRequest(w) /\ taken[Rid(w)] = 1
    /\ \A w, v \in Workers : w # v => Rid(w) # Rid(v)
    /\ sent = NumWorkers

\* C12. Drain and shutdown: once the producer has closed the queue, every
\* request already enqueued is still processed and recorded, then every worker
\* leaves its loop (the wait group is released); at that point totalRequests
\* equals the number of requests that were enqueued.
C12_DrainAndShutdown ==
    /\ closed ~> Quiescent
    /\ \A r \in RequestIds :
           (closed /\ InQueue(r) = 1) ~> (recorded[r] = 1)
    /\ [](Quiescent =>
             /\ \A r \in 1..sent : recorded[r] = 1
             /\ GlobalMetrics.TotalRequests = sent)

\* The queue is closed while a request is still in its buffer and a worker
\* is busy with an earlier one.
C12_Witness ==
    /\ closed
    /\ requests # <<>>
    /\ \E w \in Workers : InRequest(w)

\* ------------------------------------- claims on the registry operations
\* The step is the return of process p from operation op.
Returns(p, op) == call[p].op = op /\ call'[p] = NoCall

\* Between taking the lock of a seat and returning, the status the operation
\* has read is the status of the seat, and the lock is its own.
CheckAndUpdateAtomic ==
    \A p \in Procs :
        pc[p] = "write" =>
            mu[SeatOf(p)] = p /\ seen[p] = Seat_metrix[SeatOf(p)]

\* C13. HoldSeat(n) returns false and changes nothing when seat n is unknown
\* or its status is not Available; otherwise it sets the status to Held and
\* returns true; its check and its update are one atomic step with respect
\* to every other operation on seat n.
C13_HoldSeatResult ==
    /\ []CheckAndUpdateAtomic
    /\ [][\A p \in Callers :
             Returns(p, "hold") =>
                 IF SeatOf(p) \in SeatNumbers
                        /\ Seat_metrix[SeatOf(p)] = Available
                 THEN /\ ret'[p]
                      /\ Seat_metrix' =
                             [Seat_metrix EXCEPT ![SeatOf(p)] = Held]
                 ELSE /\ ~ret'[p]
                      /\ Seat_metrix' = Seat_metrix]_vars

\* One HoldSeat call has returned true and holds the seat; a second call on
\* the same seat has the lock and has read Held.
C13_Witness ==
    \E p, q \in Callers :
        /\ p # q
        /\ pc[p] = "idle" /\ ret[p]
        /\ call[q].op = "hold" /\ pc[q] = "write" /\ seen[q] = Held
        /\ grants[SeatOf(q)] = 1

\* C14. ConfirmSeat(n) returns true and sets the status to Booked only when
\* seat n exists and is Held; in every other case it returns false and leaves
\* every seat unchanged.
C14_ConfirmSeatResult ==
    [][\A p \in Callers :
           Returns(p, "confirm") =>
               IF SeatOf(p) \in SeatNumbers /\ Seat_metrix[SeatOf(p)] = Held
               THEN /\ ret'[p]
                    /\ Seat_metrix' =
                           [Seat_metrix EXCEPT ![SeatOf(p)] = Booked]
               ELSE /\ ~ret'[p]
                    /\ Seat_metrix' = Seat_metrix]_vars

\* A ConfirmSeat call has the lock of a seat that is Available while another
\* seat is Booked, and a second ConfirmSeat call names an unknown seat.
C14_Witness ==
    \E p, q \in Callers :
        /\ p # q
        /\ call[p].op = "confirm" /\ pc[p] = "write"
        /\ seen[p] = Available
        /\ BookedSeats # {}
        /\ call[q].op = "confirm" /\ SeatOf(q) = UnknownSeat

\* C15. ReleaseSeat(n) sets the status to Available only when seat n is
\* Held and changes nothing otherwise; after it the seat is not Held, so a
\* second call in a row leaves the state the first call left.
C15_ReleaseSeatIdempotent ==
    [][\A p \in Callers :
           Returns(p, "release") =>
               /\ Seat_metrix' =
                      IF SeatOf(p) \in SeatNumbers
                             /\ Seat_metrix[SeatOf(p)] = Held
                      THEN [Seat_metrix EXCEPT ![SeatOf(p)] = Available]
                      ELSE Seat_metrix
               /\ SeatOf(p) \in SeatNumbers =>
                      Seat_metrix'[SeatOf(p)] # Held]_vars

\* Two ReleaseSeat calls in a row on a Held seat: the first has the lock and
\* has read Held, the second waits for the lock.
C15_Witness ==
    \E p, q \in Callers :
        /\ p # q
        /\ call[p].op = "release" /\ call[q].op = "release"
        /\ SeatOf(p) = SeatOf(q)
        /\ pc[p] = "write" /\ seen[p] = Held
        /\ pc[q] = "lock"

\* ------------------------------------------------ claims on the metrics
RECURSIVE SumOfDurations(_)
SumOfDurations(S) ==
    IF S = {} THEN 0
    ELSE LET w == CHOOSE x \in S : TRUE
         IN duration[w] + SumOfDurations(S \ {w})

CompletedCalls ==
    ledger.calls["success"] + ledger.calls["failed"]
        + ledger.calls["timeout"] + ledger.calls["cancelled"]

\* C16. Each Record(d, o) with o one of success, failed, timeout adds 1 to
\* totalRequests, d to totalLatency and 1 to exactly the counter of o: each
\* outcome counter equals the number of completed calls with that status,
\* and totalRequests and totalLatency equal the completed calls and their
\* durations plus the part already added by the calls under way, whatever
\* the interleaving of concurrent calls.
C16_RecordCounts ==
    /\ GlobalMetrics.Success = ledger.calls["success"]
    /\ GlobalMetrics.Failed = ledger.calls["failed"]
    /\ GlobalMetrics.Timeout = ledger.calls["timeout"]
    /\ GlobalMetrics.TotalRequests =
           CompletedCalls
               + Cardinality({w \in Workers : pc[w] \in {"rec2", "rec3"}})
    /\ GlobalMetrics.TotalLatency =
           ledger.latency + SumOfDurations({w \in Workers : pc[w] = "rec3"})

\* Two Record calls with different statuses and a duration above zero are
\* under way at once, one between its first and second add, the other
\* before its switch.
C16_Witness ==
    \E w, v \in Workers :
        /\ pc[w] = "rec2" /\ pc[v] = "rec3"
        /\ status[w] = "timeout" /\ status[v] = "success"
        /\ duration[w] > 0 /\ duration[v] > 0

\* The step is AverageLatency's load of TotalRequests, or its return after
\* the load of TotalLatency.
FirstLoadStep ==
    /\ pc[Reader] = "idle"
    /\ \A w \in Workers : pc'[w] = pc[w]
    /\ <<total, average, quiet, pc>>' # <<total, average, quiet, pc>>

AverageReturnStep == pc[Reader] = "avg2" /\ pc'[Reader] = "idle"

\* C17. AverageLatency is zero-safe: it returns zero when totalRequests is
\* 0 and never divides by zero, also while the first Record call is under
\* way; when no Record call is under way during the call it returns
\* totalLatency / totalRequests (integer division).
C17_AverageLatencyZeroSafe ==
    /\ [](pc[Reader] # "panic" /\ (pc[Reader] = "avg2" => total > 0))
    /\ [][/\ (FirstLoadStep /\ GlobalMetrics.TotalRequests = 0) =>
                 (average' = 0 /\ pc'[Reader] = "idle")
          /\ (AverageReturnStep /\ quiet) =>
                 average' = GlobalMetrics.TotalLatency
                                \div GlobalMetrics.TotalRequests]_vars

\* AverageLatency has loaded TotalRequests = 1 while the first Record call
\* has added 1 to TotalRequests and not yet its duration to TotalLatency.
C17_Witness ==
    /\ pc[Reader] = "avg2"
    /\ total = 1
    /\ GlobalMetrics.TotalLatency = 0
    /\ \E w \in Workers : pc[w] = "rec2" /\ duration[w] > 0

SetMin(S) == CHOOSE x \in S : \A y \in S : x <= y
SetMax(S) == CHOOSE x \in S : \A y \in S : x >= y

\* C18 as stated. Whenever totalRequests > 0, the value AverageLatency
\* returns lies between the smallest and the largest duration passed to
\* Record so far, also when Record calls are under way during the call.
C18_AverageWithinRange ==
    [][AverageReturnStep =>
           /\ SetMin(ledger.begun) <= average'
           /\ average' <= SetMax(ledger.begun)]_vars

\* C18 amended. When no Record call is under way during the AverageLatency
\* call and totalRequests > 0, the value returned lies between the smallest
\* and the largest duration of the completed Record calls.
C18_QuietAverageWithinRange ==
    [][(AverageReturnStep /\ quiet) =>
           /\ SetMin(ledger.done) <= average'
           /\ average' <= SetMax(ledger.done)]_vars

\* AverageLatency has loaded TotalRequests and is about to load
\* TotalLatency, after Record calls with different durations have completed
\* and with none under way.
C18_Witness ==
    /\ pc[Reader] = "avg2"
    /\ quiet
    /\ Cardinality(ledger.done) >= 2
    /\ \A w \in Workers : pc[w] = "idle"

\* --------------------------------------------- claims on late payments
\* C19. Late payment results are discarded: once the deadline has decided a
\* request as timeout, its payment result is never received, and the later
\* completion of its payment task, with true or with false, changes no seat
\* status, no metrics counter and no worker.
C19_LateResultDiscarded ==
    /\ [](\A r \in RequestIds :
             timer[r] = "fired" => payment[r] \in {"paying", "sending"})
    /\ [][\A r \in RequestIds :
             (timer[r] = "fired" /\ payment'[r] # payment[r]) =>
                 /\ Seat_metrix' = Seat_metrix
                 /\ GlobalMetrics' = GlobalMetrics
                 /\ pc' = pc
                 /\ status' = status]_vars

\* The Pay call of a request recorded as timeout has returned while a
\* worker waits in the select of a later request.
C19_Witness ==
    \E r \in RequestIds :
        /\ timer[r] = "fired" /\ recorded[r] = 1
        /\ payment[r] = "sending"
        /\ \E w \in Workers : pc[w] = "select" /\ Rid(w) > r

\* C20. Paid without booking is reachable: a request times out and releases
\* its seat, another request then holds and books the same seat, and the
\* payment of the first request afterwards returns true. Such a request
\* keeps the outcome timeout and its result is never received: the bookings
\* counted as success are those of requests whose result was received.
C20_PaidWithoutBooking ==
    /\ \A r \in RequestIds :
           (timer[r] = "fired" /\ paid[r]) =>
               /\ payment[r] = "sending"
               /\ \A w \in WorkersOn(r) : status[w] = "timeout"
               /\ recorded[r] = 1 => WorkersOn(r) = {}
    /\ GlobalMetrics.Success
           <= Cardinality({r \in RequestIds : payment[r] = "done"})

\* Request 1 was recorded as timeout and its Pay call is still running;
\* request 2, for the same seat, has booked it; Pay of request 1 can now
\* return true.
C20_Witness ==
    /\ asked = {"A1"}
    /\ timer[1] = "fired" /\ recorded[1] = 1 /\ payment[1] = "paying"
    /\ payment[2] = "done" /\ recorded[2] = 1
    /\ Seat_metrix["A1"] = Booked
    /\ GlobalMetrics.Success = 1 /\ GlobalMetrics.Timeout = 1
    /\ ENABLED (PayReturn(1) /\ paid'[1])

\* ------------------------------------- further claims on the metrics
MetricsFields ==
    {"TotalRequests", "Success", "Failed", "Timeout", "TotalLatency"}

\* C21. The metrics counters are monotonic: no step of a Record or an
\* AverageLatency call, in any interleaving, decreases or resets
\* totalRequests, success, failed, timeout or totalLatency.
C21_CountersMonotonic ==
    [][\A f \in MetricsFields : GlobalMetrics'[f] >= GlobalMetrics[f]]_vars

\* Every Record call of the run has completed, each with one of the three
\* outcomes, and AverageLatency has returned a value above zero.
C21_Witness ==
    /\ GlobalMetrics.TotalRequests = MaxRequests
    /\ GlobalMetrics.TotalLatency > 0
    /\ GlobalMetrics.Success + GlobalMetrics.Failed + GlobalMetrics.Timeout
           = MaxRequests
    /\ average > 0

\* ----------------------------------------- further claims on the pool
\* C22. Backpressure: the number of requests waiting in the queue never
\* exceeds its capacity, and a producer with a request to send can send it
\* exactly when the queue is not full: while it is full the producer is
\* blocked, until a worker dequeues a request.
C22_Backpressure ==
    /\ Len(requests) <= RequestsCap
    /\ (sent < MaxRequests /\ ~closed) =>
           (ENABLED Produce <=> Len(requests) < RequestsCap)

\* The queue is full, the producer has a further request to send and is
\* blocked, and a worker is ready to dequeue.
C22_Witness ==
    /\ Len(requests) = RequestsCap
    /\ sent < MaxRequests
    /\ ~ENABLED Produce
    /\ \E w \in Workers : ENABLED Dequeue(w)

\* C23. A failing request never stops the pool: a request for an unknown
\* seat number is handled like an unavailable seat (HoldSeat returns false,
\* the outcome is failed, no seat changes), and after a request ended as
\* failed or timeout its worker is back at the queue, where it dequeues the
\* next request whenever there is one.
C23_FailureDoesNotStopPool ==
    /\ [](\A w \in Workers :
             (pc[w] = "idle" /\ requests # <<>>) => ENABLED Dequeue(w))
    /\ [][\A w \in Workers :
             /\ (Returns(w, "hold") /\ SeatOf(w) \notin SeatNumbers) =>
                    /\ ~ret'[w]
                    /\ status'[w] = "failed"
                    /\ pc'[w] = "rec1"
                    /\ Seat_metrix' = Seat_metrix
             /\ (pc[w] = "rec3" /\ pc'[w] # "rec3"
                     /\ status[w] \in {"failed", "timeout"}) =>
                    pc'[w] = "idle"]_vars

\* The only request so far named an unknown seat and was recorded as failed;
\* the next request is in the queue and every worker, the one that handled
\* the failed request included, is ready to dequeue it.
C23_Witness ==
    /\ asked = {UnknownSeat}
    /\ recorded[1] = 1
    /\ GlobalMetrics.Failed = 1
    /\ requests # <<>>
    /\ \A w \in Workers : pc[w] = "idle" /\ ENABLED Dequeue(w)

PaymentOrder(x) ==
    CASE x = "none" -> 0
      [] x = "paying" -> 1
      [] x = "sending" -> 2
      [] x = "done" -> 3

\* C24. No retries and one payment per hold: each request is received once,
\* so HoldSeat is called at most once for it; its payment attempt is started
\* by the return of that HoldSeat with true and by nothing else, is never
\* started again, and is not started when HoldSeat returned false; one
\* outcome is recorded for it, after which it is never taken up again.
C24_NoRetryOnePayment ==
    /\ [](\A r \in RequestIds :
             /\ taken[r] <= 1
             /\ recorded[r] <= 1
             /\ payment[r] # "none" => taken[r] = 1)
    /\ [][/\ \A r \in RequestIds :
                /\ PaymentOrder(payment'[r]) >= PaymentOrder(payment[r])
                /\ (payment[r] = "none" /\ payment'[r] # "none") =>
                       \E w \in Workers :
                           Rid(w) = r /\ Returns(w, "hold") /\ ret'[w]
                /\ recorded[r] = 1 =>
                       /\ taken'[r] = taken[r]
                       /\ recorded'[r] = recorded[r]
                       /\ payment[r] = "none" => payment'[r] = "none"
          /\ \A w \in Workers :
                /\ Returns(w, "hold") =>
                       (ret'[w] <=> payment'[Rid(w)] = "paying")
                /\ (call'[w].op = "hold" /\ call[w].op # "hold") =>
                       taken[req'[w].id] = 0]_vars

\* Quiescence after one request whose HoldSeat was refused, with no payment
\* attempt, and one whose single payment attempt was received.
C24_Witness ==
    /\ Quiescent
    /\ \E r, q \in RequestIds :
           /\ recorded[r] = 1 /\ payment[r] = "none"
           /\ recorded[q] = 1 /\ payment[q] = "done"

\* ------------------------------------ further claims on the registry
\* C25. Per-seat isolation: an operation on seat A takes the lock of A as
\* soon as that lock is free, whatever locks of other seats are held (there
\* is no flight-wide lock to wait for), and no step of an operation on A
\* changes the status or the lock of another seat.
C25_PerSeatIsolation ==
    /\ [](\A p \in Callers :
             (pc[p] = "lock" /\ SeatOf(p) \in SeatNumbers
                  /\ mu[SeatOf(p)] = NoOne) => ENABLED SeatLock(p))
    /\ [][\A p \in Callers :
             pc'[p] # pc[p] =>
                 \A s \in SeatNumbers \ {SeatOf(p)} :
                     Seat_metrix'[s] = Seat_metrix[s] /\ mu'[s] = mu[s]]_vars

\* Two operations hold the locks of two different seats at the same time,
\* one of them on a seat that is Booked.
C25_Witness ==
    \E p, q \in Callers :
        /\ p # q
        /\ SeatOf(p) \in SeatNumbers /\ SeatOf(q) \in SeatNumbers
        /\ SeatOf(p) # SeatOf(q)
        /\ mu[SeatOf(p)] = p /\ mu[SeatOf(q)] = q
        /\ Seat_metrix[SeatOf(p)] = Booked

\* ------------------------------------ claims on holds and bookings
\* C26. Fail-fast on a held seat: a seat lock is held only between the
\* status check and the update of one operation, never by a worker in its
\* payment race; a HoldSeat on a seat that another worker holds can take the
\* lock unless some operation is inside that short section, and it returns
\* false with outcome failed while the other worker still waits.
C26_FailFastOnHeldSeat ==
    /\ [](\A s \in SeatNumbers :
             mu[s] # NoOne => (pc[mu[s]] = "write" /\ SeatOf(mu[s]) = s))
    /\ [](\A w \in Workers :
             (pc[w] = "lock" /\ SeatOf(w) \in SeatNumbers
                  /\ \A v \in Workers :
                         ~(pc[v] = "write" /\ SeatOf(v) = SeatOf(w)))
                 => ENABLED SeatLock(w))
    /\ [][\A w \in Workers :
             (Returns(w, "hold") /\ SeatOf(w) \in SeatNumbers
                  /\ Seat_metrix[SeatOf(w)] = Held) =>
                 /\ ~ret'[w]
                 /\ status'[w] = "failed"
                 /\ \A v \in Workers : pc[v] = "select" => pc'[v] = "select"]_vars

\* A worker waits in its select for the payment of the seat it holds while
\* another worker's HoldSeat on that seat has the lock and has read Held.
C26_Witness ==
    \E w, v \in Workers :
        /\ pc[v] = "select"
        /\ req[v].seatNo = SeatOf(w)
        /\ call[w].op = "hold" /\ pc[w] = "write" /\ seen[w] = Held
        /\ payment[Rid(v)] = "paying"

\* C27. The set of seats is fixed after construction: in every state reached
\* by HoldSeat, ConfirmSeat and ReleaseSeat calls, calls with unknown seat
\* numbers included, the keys of the seat map are the seats CreateFlight
\* made, each with one of the three statuses.
C27_SeatSetFixed ==
    /\ DOMAIN Seat_metrix = SeatNumbers
    /\ \A s \in DOMAIN Seat_metrix : Seat_metrix[s] \in SeatStatus

\* Two operations on an unknown seat number are under way while one seat of
\* the flight is Booked and another is Held.
C27_Witness ==
    /\ \E p, q \in Callers :
           /\ p # q
           /\ call[p].seatNo = UnknownSeat /\ call[p].op = "release"
           /\ pc[p] = "lock"
           /\ call[q].seatNo = UnknownSeat /\ call[q].op = "hold"
           /\ pc[q] = "lock"
    /\ \E s \in SeatNumbers : Seat_metrix[s] = Booked
    /\ \E s \in SeatNumbers : Seat_metrix[s] = Held

\* The workers between their successful HoldSeat on seat s and the return
\* of their ConfirmSeat or ReleaseSeat for it.
Owners(s) ==
    {w \in Workers :
        /\ req[w].seatNo = s
        /\ \/ pc[w] = "select"
           \/ pc[w] \in {"lock", "write"}
                  /\ call[w].op \in {"confirm", "release"}}

\* C28. Hold ownership: a seat is Held if and only if exactly one worker is
\* between its successful HoldSeat and its ConfirmSeat or ReleaseSeat for
\* that seat, and no seat ever has two such workers; a worker that confirms
\* or releases is one whose own HoldSeat returned true.
C28_HoldOwnership ==
    /\ \A s \in SeatNumbers :
           Cardinality(Owners(s)) = IF Seat_metrix[s] = Held THEN 1 ELSE 0
    /\ \A w \in Workers :
           call[w].op \in {"confirm", "release"} =>
               /\ w \in Owners(req[w].seatNo)
               /\ payment[Rid(w)] # "none"

\* One worker releases the seat it holds after a timeout while the other
\* worker's HoldSeat on the same seat waits for the lock.
C28_Witness ==
    \E w, v \in Workers :
        /\ call[w].op = "release" /\ pc[w] = "write"
        /\ status[w] = "timeout"
        /\ call[v].op = "hold" /\ pc[v] = "lock"
        /\ SeatOf(v) = SeatOf(w)

\* C29. The worker's ConfirmSeat always succeeds: whenever a worker is in
\* ConfirmSeat, after a payment that returned true, the seat is still Held,
\* and the call returns true and leaves the seat Booked; a worker that
\* records success has had true from ConfirmSeat and its seat is Booked.
C29_WorkerConfirmSucceeds ==
    /\ [](\A w \in Workers :
             /\ call[w].op = "confirm" =>
                    /\ Seat_metrix[SeatOf(w)] = Held
                    /\ Owners(SeatOf(w)) = {w}
             /\ (Recording(w) /\ status[w] = "success") =>
                    ret[w] /\ Seat_metrix[req[w].seatNo] = Booked)
    /\ [][\A w \in Workers :
             Returns(w, "confirm") =>
                 ret'[w] /\ Seat_metrix'[SeatOf(w)] = Booked]_vars

\* A worker whose payment returned true has the lock of its seat in
\* ConfirmSeat and has read Held, while the other worker's HoldSeat on the
\* same seat waits for the lock.
C29_Witness ==
    \E w, v \in Workers :
        /\ call[w].op = "confirm" /\ pc[w] = "write" /\ seen[w] = Held
        /\ status[w] = "success"
        /\ call[v].op = "hold" /\ pc[v] = "lock"
        /\ SeatOf(v) = SeatOf(w)

\* The workers whose ConfirmSeat has returned and whose success is not yet
\* added to the counter.
SuccessPending == {w \in Workers : Recording(w) /\ status[w] = "success"}

\* C30. Bookings match successes: at every instant success <= number of
\* Booked seats <= number of seats, the difference being the workers that
\* have booked and not yet counted; at quiescence success equals the number
\* of Booked seats; and no seat is booked for two requests.
C30_BookingsMatchSuccesses ==
    /\ GlobalMetrics.Success <= Cardinality(BookedSeats)
    /\ Cardinality(BookedSeats) <= Cardinality(SeatNumbers)
    /\ Cardinality(BookedSeats)
           = GlobalMetrics.Success + Cardinality(SuccessPending)
    /\ \A w, v \in SuccessPending : w # v => req[w].seatNo # req[v].seatNo
    /\ Quiescent => GlobalMetrics.Success = Cardinality(BookedSeats)

\* One booking is counted and a second worker has booked another seat and
\* not yet counted its success.
C30_Witness ==
    /\ GlobalMetrics.Success = 1
    /\ Cardinality(BookedSeats) = 2
    /\ \E w \in SuccessPending : pc[w] = "rec3"

\* ------------------------------------------- claims on the final state
\* C31. No hold survives quiescence: once the queue is closed and drained
\* and every worker has left its loop, no seat is Held; every seat is
\* Available or Booked.
C31_NoHoldAtQuiescence ==
    Quiescent =>
        \A s \in SeatNumbers : Seat_metrix[s] \in {Available, Booked}

\* Quiescence after a request that timed out and a request whose payment
\* was refused, each of which released the seat it held.
C31_Witness ==
    /\ Quiescent
    /\ GlobalMetrics.Timeout = 1
    /\ GlobalMetrics.Failed = 1
    /\ \E r \in RequestIds : payment[r] = "done"
    /\ \A s \in SeatNumbers : Seat_metrix[s] = Available

\* C32. Booked is final: once a seat is Booked no step changes its status
\* again, and the HoldSeat of every later request for that seat returns
\* false, so that the request ends with outcome failed.
C32_BookedIsFinal ==
    /\ [][\A s \in SeatNumbers :
             Seat_metrix[s] = Booked => Seat_metrix'[s] = Booked]_vars
    /\ [][\A w \in Workers :
             (Returns(w, "hold") /\ SeatOf(w) \in SeatNumbers
                  /\ Seat_metrix[SeatOf(w)] = Booked) =>
                 /\ ~ret'[w]
                 /\ status'[w] = "failed"
                 /\ pc'[w] = "rec1"
                 /\ payment'[Rid(w)] = "none"]_vars
    /\ [](\A w \in Workers :
             (InRequest(w) /\ req[w].seatNo \in SeatNumbers
                  /\ Seat_metrix[req[w].seatNo] = Booked
                  /\ payment[Rid(w)] = "none" /\ Recording(w)) =>
                 status[w] = "failed")

\* A request for a seat that an earlier request has booked: its HoldSeat has
\* the lock and has read Booked.
C32_Witness ==
    \E w \in Workers :
        /\ call[w].op = "hold" /\ pc[w] = "write" /\ seen[w] = Booked
        /\ GlobalMetrics.Success = 1

\* ------------------------------------ claims on counters in progress
\* The Record calls that have added to TotalRequests and not yet to their
\* outcome counter.
HalfRecorded == {w \in Workers : pc[w] \in {"rec2", "rec3"}}

\* C33. Counters during processing: at every instant, also while Record
\* calls are under way, success + failed + timeout <= totalRequests, and the
\* difference is never more than the number of Record calls that have
\* incremented totalRequests and not yet their outcome counter.
C33_CountersInProgress ==
    LET outcomes == GlobalMetrics.Success + GlobalMetrics.Failed
                        + GlobalMetrics.Timeout
    IN /\ outcomes <= GlobalMetrics.TotalRequests
       /\ GlobalMetrics.TotalRequests - outcomes <= Cardinality(HalfRecorded)

\* Every worker is inside Record, one before and one after its add to
\* TotalLatency, so that totalRequests is ahead of the outcome counters by
\* the size of the pool.
C33_Witness ==
    /\ HalfRecorded = Workers
    /\ \E w, v \in Workers : pc[w] = "rec2" /\ pc[v] = "rec3"
    /\ GlobalMetrics.TotalRequests = NumWorkers
    /\ GlobalMetrics.Success + GlobalMetrics.Failed + GlobalMetrics.Timeout = 0

KnownOutcomes == {"success", "failed", "timeout"}

\* C34. The worker always records a known outcome: whenever a worker is in
\* Record its status is success, failed or timeout; and Record with any other
\* status, the empty string included, adds 1 to totalRequests and leaves
\* every outcome counter as it is.
C34_KnownOutcomeRecorded ==
    /\ \A w \in Workers : Recording(w) => status[w] \in KnownOutcomes
    /\ \A st \in (RecordStatuses \cup {""}) \ KnownOutcomes :
           LET m == AddOutcome(AddTotal(GlobalMetrics), st)
           IN /\ m.TotalRequests = GlobalMetrics.TotalRequests + 1
              /\ \A c \in OutcomeCounters : m[c] = GlobalMetrics[c]

\* Both workers are about to call Record, one with status timeout and the
\* other with status failed.
C34_Witness ==
    /\ \E w, v \in Workers :
           /\ pc[w] = "rec1" /\ status[w] = "timeout"
           /\ pc[v] = "rec1" /\ status[v] = "failed"
    /\ sent >= 2

\* ------------------------------------------ claims on payment tasks
\* The payment goroutines that were started and have not terminated.
LiveTasks == {r \in RequestIds : payment[r] \in {"paying", "sending"}}
TimedOut == {r \in RequestIds : timer[r] = "fired"}

\* C35. Abandoned payment tasks accumulate: each request that ends as
\* timeout leaves one payment goroutine that has not terminated (still in
\* Pay, or waiting to deliver its result) after the worker has moved on,
\* one per timeout counted; their number is not bounded by the size of the
\* pool.
C35_AbandonedTasksAccumulate ==
    /\ TimedOut \subseteq LiveTasks
    /\ Cardinality({r \in TimedOut : recorded[r] = 1}) = GlobalMetrics.Timeout
    /\ Cardinality(LiveTasks \ TimedOut) <= NumWorkers

\* All workers have exited and more payment goroutines than the pool has
\* workers are still alive, one of them waiting to deliver its result.
C35_Witness ==
    /\ Quiescent
    /\ Cardinality(LiveTasks) > NumWorkers
    /\ GlobalMetrics.Timeout = Cardinality(LiveTasks)
    /\ \E r \in LiveTasks : payment[r] = "sending"

\* =====================================================================
\* TCP adapter: the wire format (package protocol)
\* =====================================================================
Colon == ":"
Space == " "
Newline == "\n"
WhiteSpace == {Space, Newline}

\* The strings of at most n units over the units in S.
Strings(S, n) == UNION {[1..k -> S] : k \in 0..n}

\* strings.Index: the position of the first u in s, 0 when there is none.
Index(s, u) ==
    IF \E i \in 1..Len(s) : s[i] = u
    THEN CHOOSE i \in 1..Len(s) : s[i] = u /\ \A j \in 1..(i - 1) : s[j] # u
    ELSE 0

\* NewMessage(command, payload).
NewMessage(command, payload) == [Command |-> command, Payload |-> payload]

\* Message.Encode: fmt.Sprintf("%s:%s\n", m.Command, m.Payload).
Encode(m) == m.Command \o <<Colon>> \o m.Payload \o <<Newline>>

\* bufio.Reader.ReadString('\n'): the text up to and with the first
\* newline and what stays in the reader; io.EOF when no newline comes.
ReadString(s) ==
    LET i == Index(s, Newline)
    IN  IF i = 0
        THEN [eof |-> TRUE, line |-> s, rest |-> <<>>]
        ELSE [eof |-> FALSE, line |-> SubSeq(s, 1, i),
              rest |-> SubSeq(s, i + 1, Len(s))]

\* strings.TrimSpace: s without its leading and its trailing white space.
TrimSpace(s) ==
    LET kept == {i \in 1..Len(s) : s[i] \notin WhiteSpace}
    IN  IF kept = {}
        THEN <<>>
        ELSE SubSeq(s, CHOOSE i \in kept : \A j \in kept : i <= j,
                       CHOOSE i \in kept : \A j \in kept : j <= i)

\* strings.SplitN(s, ":", 2): s itself when it has no colon, else what is
\* before and what is after its first colon.
SplitN(s) ==
    LET i == Index(s, Colon)
    IN  IF i = 0
        THEN <<s>>
        ELSE <<SubSeq(s, 1, i - 1), SubSeq(s, i + 1, Len(s))>>

\* protocol.Decode on a reader holding s: err is "" for a nil error.
Decode(s) ==
    LET read == ReadString(s)
        parts == SplitN(TrimSpace(read.line))
    IN  IF read.eof
        THEN [err |-> "connection closed", msg |-> NoMessage]
        ELSE IF Len(parts) # 2
             THEN [err |-> "invalid message format", msg |-> NoMessage]
             ELSE [err |-> "", msg |-> NewMessage(parts[1], parts[2])]

\* The messages given to Encode: a Command without colon and newline, a
\* Payload without newline.
CommandUnits == {"a", Space}
PayloadUnits == {"a", Space, Colon}
Commands == Strings(CommandUnits, MaxLen)
Payloads == Strings(PayloadUnits, MaxLen)

\* A caller builds a message.
Build ==
    /\ wire = <<>>
    /\ \E c \in Commands, p \in Payloads : message' = NewMessage(c, p)
    /\ UNCHANGED <<wire, decoded, tcpVars, mutexVars>>
    /\ UNCHANGED <<registryVars, poolVars, pc, status, GlobalMetrics,
                   metricsVars>>

\* msg.Encode().
EncodeStep ==
    /\ wire = <<>>
    /\ wire' = Encode(message)
    /\ UNCHANGED <<message, decoded, tcpVars, mutexVars>>
    /\ UNCHANGED <<registryVars, poolVars, pc, status, GlobalMetrics,
                   metricsVars>>

\* protocol.Decode on a reader that holds the encoded message.
DecodeStep ==
    /\ wire # <<>>
    /\ decoded = NoResult
    /\ decoded' = Decode(wire)
    /\ UNCHANGED <<message, wire, tcpVars, mutexVars>>
    /\ UNCHANGED <<registryVars, poolVars, pc, status, GlobalMetrics,
                   metricsVars>>

NextCodec == Build \/ EncodeStep \/ DecodeStep

SpecCodec == Init /\ [][NextCodec]_vars

\* C37: for every Message whose Command holds no colon and no newline and
\* whose Payload holds no newline, Decode of what Encode returned gives a
\* Message with the same Command and the same Payload (payloads with
\* colons, with leading or trailing spaces, and empty payloads included).
C37_RoundTrip ==
    (/\ decoded # NoResult
     /\ \A i \in 1..Len(message.Command) :
            message.Command[i] \notin {Colon, Newline}
     /\ \A i \in 1..Len(message.Payload) : message.Payload[i] # Newline)
        => decoded.err = "" /\ decoded.msg = message

\* =====================================================================
\* TCP adapter: one connection (package handler)
\* =====================================================================
\* strings.ToUpper, strings.ToLower and the reversal of the runes, on the
\* words of the model; the delimiters and the other words stay as they are.
UpperUnit(u) ==
    CASE u = "quit" -> "QUIT"
      [] u = "Hi" -> "HI"
      [] u = "iH" -> "IH"
      [] OTHER -> u

LowerUnit(u) ==
    CASE u = "Hi" -> "hi"
      [] u = "iH" -> "ih"
      [] OTHER -> u

ReverseUnit(u) ==
    CASE u = "Hi" -> "iH"
      [] u = "iH" -> "Hi"
      [] OTHER -> u

ToUpper(s) == [i \in 1..Len(s) |-> UpperUnit(s[i])]
ToLower(s) == [i \in 1..Len(s) |-> LowerUnit(s[i])]
reverseString(s) == [i \in 1..Len(s) |-> ReverseUnit(s[Len(s) + 1 - i])]

\* The welcome message of Handle.
Welcome ==
    NewMessage(<<"WELCOME">>,
               <<"Connected", Space, "to", Space, "TCP", Space, "Adapter",
                 Space, "Server">>)

\* ConnectionHandler.processMessage.
processMessage(msg) ==
    LET command == ToUpper(msg.Command)
    IN  CASE command = <<"ECHO">> ->
               NewMessage(<<"ECHO_RESPONSE">>, msg.Payload)
          [] command = <<"UPPER">> ->
               NewMessage(<<"UPPER_RESPONSE">>, ToUpper(msg.Payload))
          [] command = <<"LOWER">> ->
               NewMessage(<<"LOWER_RESPONSE">>, ToLower(msg.Payload))
          [] command = <<"REVERSE">> ->
               NewMessage(<<"REVERSE_RESPONSE">>, reverseString(msg.Payload))
          [] command = <<"PING">> -> NewMessage(<<"PONG">>, <<"alive">>)
          [] command = <<"QUIT">> -> NewMessage(<<"BYE">>, <<"Goodbye!">>)
          [] OTHER ->
               NewMessage(<<"ERROR">>,
                          <<"Unknown", Space, "command", Colon, Space>>
                              \o msg.Command)

\* What a client writes on the connection, one line at a time: the encoded
\* messages of the commands (and of an unknown one), with and without a
\* payload, and two lines typed without a colon.
ClientCommands ==
    {"ECHO", "UPPER", "LOWER", "REVERSE", "PING", "QUIT", "quit", "HELLO"}
ClientPayloads == {<<>>, <<"Hi">>}
ClientLines ==
    {Encode(NewMessage(<<c>>, p)) : c \in ClientCommands, p \in ClientPayloads}
        \cup {<<"PING", Newline>>, <<Newline>>}

\* Number of lines the client has written so far.
LinesWritten ==
    Len(handled) + Cardinality({i \in 1..Len(inbound) : inbound[i] = Newline})

\* The client writes a line.
ClientWrite ==
    /\ clientOpen
    /\ conn # "closed"
    /\ LinesWritten < MaxLines
    /\ \E line \in ClientLines : inbound' = inbound \o line
    /\ UNCHANGED <<conn, clientOpen, outbound, handled, codecVars, mutexVars>>
    /\ UNCHANGED <<registryVars, poolVars, pc, status, GlobalMetrics,
                   metricsVars>>

\* The client closes its end of the connection.
ClientClose ==
    /\ clientOpen
    /\ clientOpen' = FALSE
    /\ UNCHANGED <<conn, inbound, outbound, handled, codecVars, mutexVars>>
    /\ UNCHANGED <<registryVars, poolVars, pc, status, GlobalMetrics,
                   metricsVars>>

\* SendMessage: the encoded message written and flushed.
SendMessage(out, msg) == Append(out, Encode(msg))

\* Handle up to its loop: the welcome message is sent.
SendWelcome ==
    /\ conn = "accepted"
    /\ outbound' = SendMessage(outbound, Welcome)
    /\ conn' = "loop"
    /\ UNCHANGED <<inbound, clientOpen, handled, codecVars, mutexVars>>
    /\ UNCHANGED <<registryVars, poolVars, pc, status, GlobalMetrics,
                   metricsVars>>

\* Decode returns from its read: a whole line is there, or the client has
\* closed its end.
DecodeReturns == Index(inbound, Newline) # 0 \/ ~clientOpen

\* One turn of the loop of Handle with a nil error from Decode: the
\* message is processed and its response sent.
HandleMessage ==
    /\ conn = "loop"
    /\ DecodeReturns
    /\ Decode(inbound).err = ""
    /\ outbound' = SendMessage(outbound, processMessage(Decode(inbound).msg))
    /\ handled' = Append(handled, ReadString(inbound).line)
    /\ inbound' = ReadString(inbound).rest
    /\ UNCHANGED <<conn, clientOpen, codecVars, mutexVars>>
    /\ UNCHANGED <<registryVars, poolVars, pc, status, GlobalMetrics,
                   metricsVars>>

\* One turn of the loop of Handle with an error from Decode: Handle
\* returns and its deferred conn.Close() runs.
HandleError ==
    /\ conn = "loop"
    /\ DecodeReturns
    /\ Decode(inbound).err # ""
    /\ conn' = "closed"
    /\ handled' = IF ReadString(inbound).eof
                  THEN handled
                  ELSE Append(handled, ReadString(inbound).line)
    /\ inbound' = ReadString(inbound).rest
    /\ UNCHANGED <<clientOpen, outbound, codecVars, mutexVars>>
    /\ UNCHANGED <<registryVars, poolVars, pc, status, GlobalMetrics,
                   metricsVars>>

Handle == SendWelcome \/ HandleMessage \/ HandleError

NextTcp == ClientWrite \/ ClientClose \/ Handle

SpecTcp == Init /\ [][NextTcp]_vars

\* The lines read so far that Decode turned into a message.
Messages == SelectSeq(handled, LAMBDA line : Decode(line).err = "")

\* C36: after WELCOME the server handles the messages of a connection
\* until the client disconnects: it has sent one response per message
\* received, in the order received, a QUIT message gets a BYE response,
\* and the server ends the connection only after the client has closed
\* its end (a line without a colon does not make it end the connection).
C36_HandlesUntilClientDisconnects ==
    /\ conn # "accepted" =>
           /\ Len(outbound) = 1 + Len(Messages)
           /\ outbound[1] = Encode(Welcome)
           /\ \A i \in 1..Len(Messages) :
                  /\ outbound[i + 1] =
                         Encode(processMessage(Decode(Messages[i]).msg))
                  /\ ToUpper(Decode(Messages[i]).msg.Command) = <<"QUIT">>
                         => Decode(outbound[i + 1]).msg.Command = <<"BYE">>
    /\ conn = "closed" => ~clientOpen

\* =====================================================================
\* Counter under a mutex (package mutex)
\* =====================================================================
\* mu.Lock() can return.
MutexIgnored(m) == TRUE
MutexFree(m) == m = NoOne

\* main2, one turn of its loop: wg.Add(1); go increment(&wg).
Spawn ==
    /\ started < NumGoroutines
    /\ started' = started + 1
    /\ wg' = wg + 1
    /\ gpc' = [gpc EXCEPT ![started + 1] = "lock"]
    /\ UNCHANGED <<counter, counterMu, tmp, printed, codecVars, tcpVars>>
    /\ UNCHANGED <<registryVars, poolVars, pc, status, GlobalMetrics,
                   metricsVars>>

\* increment: mu.Lock().
MutexLock(g) ==
    /\ gpc[g] = "lock"
    /\ MutexFree(counterMu)
    /\ counterMu' = g
    /\ gpc' = [gpc EXCEPT ![g] = "read"]
    /\ UNCHANGED <<counter, wg, started, tmp, printed, codecVars, tcpVars>>
    /\ UNCHANGED <<registryVars, poolVars, pc, status, GlobalMetrics,
                   metricsVars>>

\* increment: the right-hand side of counter = counter + 1 is evaluated.
CounterRead(g) ==
    /\ gpc[g] = "read"
    /\ tmp' = [tmp EXCEPT ![g] = counter]
    /\ gpc' = [gpc EXCEPT ![g] = "write"]
    /\ UNCHANGED <<counter, counterMu, wg, started, printed, codecVars,
                   tcpVars>>
    /\ UNCHANGED <<registryVars, poolVars, pc, status, GlobalMetrics,
                   metricsVars>>

\* increment: the assignment to counter.
CounterWrite(g) ==
    /\ gpc[g] = "write"
    /\ counter' = tmp[g] + 1
    /\ gpc' = [gpc EXCEPT ![g] = "unlock"]
    /\ UNCHANGED <<counterMu, wg, started, tmp, printed, codecVars, tcpVars>>
    /\ UNCHANGED <<registryVars, poolVars, pc, status, GlobalMetrics,
                   metricsVars>>

\* increment: mu.Unlock().
MutexUnlock(g) ==
    /\ gpc[g] = "unlock"
    /\ counterMu' = NoOne
    /\ gpc' = [gpc EXCEPT ![g] = "return"]
    /\ UNCHANGED <<counter, wg, started, tmp, printed, codecVars, tcpVars>>
    /\ UNCHANGED <<registryVars, poolVars, pc, status, GlobalMetrics,
                   metricsVars>>

\* increment returns: the deferred wg.Done().
Done(g) ==
    /\ gpc[g] = "return"
    /\ wg' = wg - 1
    /\ gpc' = [gpc EXCEPT ![g] = "exited"]
    /\ UNCHANGED <<counter, counterMu, started, tmp, printed, codecVars,
                   tcpVars>>
    /\ UNCHANGED <<registryVars, poolVars, pc, status, GlobalMetrics,
                   metricsVars>>

increment(g) ==
    \/ MutexLock(g)
    \/ CounterRead(g)
    \/ CounterWrite(g)
    \/ MutexUnlock(g)
    \/ Done(g)

\* main2 after its loop: wg.Wait() returns and the counter is printed.
Wait ==
    /\ started = NumGoroutines
    /\ wg = 0
    /\ printed = NoPrint
    /\ printed' = counter
    /\ UNCHANGED <<counter, counterMu, wg, started, gpc, tmp, codecVars,
                   tcpVars>>
    /\ UNCHANGED <<registryVars, poolVars, pc, status, GlobalMetrics,
                   metricsVars>>

main2 == Spawn \/ Wait

NextMutex == main2 \/ \E g \in Goroutines : increment(g)

SpecMutex == Init /\ [][NextMutex]_vars

\* The goroutines whose assignment to counter has been made.
Incremented == {g \in Goroutines : gpc[g] \in {"unlock", "return", "exited"}}

\* C38: with the lock and unlock around the read-modify-write, no
\* increment is lost in any interleaving: the counter always equals the
\* number of goroutines that have made their assignment, and once the wait
\* group has released main2 the counter it reads equals the number of
\* goroutines.
C38_NoIncrementLost ==
    /\ counter = Cardinality(Incremented)
    /\ printed # NoPrint =>
           printed = NumGoroutines /\ counter = NumGoroutines

\* main2 has printed the counter after every goroutine has run.
C38_Witness ==
    /\ printed # NoPrint
    /\ \A g \in Goroutines : gpc[g] = "exited"
    /\ counter = NumGoroutines

====
